---- MODULE Spec2Model ----
(***************************************************************************)
(* Model of extract_tiff_from_pdf (src/src/extract_tiff_from_pdf/main.py): *)
(* the dispatcher that validates its arguments, reads the page count,      *)
(* creates the output directory, submits one _convert_page_to_image call   *)
(* per page to a ThreadPoolExecutor(max_workers=20), joins the futures     *)
(* with as_completed and leaves the `with` block (executor shutdown).      *)
(*                                                                         *)
(* A future is identified by its position in the `futures` list            *)
(* (1-based here); its record carries the page_number argument it was      *)
(* submitted with, the Future state, the position of the worker inside     *)
(* _convert_page_to_image and the exception it finished with.              *)
(***************************************************************************)
EXTENDS Integers, Sequences, FiniteSets, Bags, TLC

VARIABLES
    pc,              \* position of the dispatcher in extract_tiff_from_pdf
    resolution,      \* argument `resolution`
    path_is_file,    \* what os.path.isfile(pdf_path) answers
    total_pages,     \* local `total_pages` (-1 before it is assigned)
    dir_exists,      \* the output directory exists on disk
    files,           \* files in the output directory: [name, dpi]
    io,              \* file-system operations performed by the call so far
    executor,        \* "none" | "open" | "shutdown"
    num_threads,     \* len(executor._threads)
    idle_semaphore,  \* executor._idle_semaphore
    work_queue,      \* executor._work_queue: future ids, FIFO
    futures,         \* local list `futures`
    observed,        \* future ids in the order as_completed yielded them
    error,           \* exception leaving extract_tiff_from_pdf, or NoError
    notified,        \* bag of the page numbers printed by "Saved page ..."
    unfinished_at_raise, \* history: <<future id, state>> of the futures not finished
                         \* when future.result() raised in the join loop
    doc_pages,       \* pages of the document at pdf_path (-1 until it is parsed)
    exit_code,       \* exit code of the process running main (-1 while it runs)
    stderr,          \* messages main printed to sys.stderr
    run,             \* 1 for the first conversion, 2 for the conversion run again
    first_files      \* history: the output directory as the first conversion left it

vars == <<pc, resolution, path_is_file, total_pages, dir_exists, files, io,
          executor, num_threads, idle_semaphore, work_queue, futures,
          observed, error, notified, unfinished_at_raise,
          doc_pages, exit_code, stderr, run, first_files>>

-----------------------------------------------------------------------------
(* Bounds of the exploration *)

\* page counts explored with every interleaving of workers and dispatcher
MaxPages == 3
\* page counts above the pool size explored by SpecPool: max_workers+1 .. max_workers+MaxExtra
MaxExtra == 1

(* Program constants *)

\* ThreadPoolExecutor(max_workers=20)
max_workers == 20
\* the width of the format spec in f"page_{page_number+1:04}.tiff"
PadWidth == 4

\* values of the `resolution` argument
Resolutions == {-1, 0, 300}

-----------------------------------------------------------------------------
(* Exceptions *)

NoError == [type |-> "None", msg |-> "", src |-> 0]
\* raise ValueError("Resolution must be a positive integer")
ResolutionError == [type |-> "ValueError", msg |-> "Resolution must be a positive integer", src |-> 0]
\* raise ValueError(f"PDF file not found: {pdf_path}")
NotFoundError == [type |-> "ValueError", msg |-> "PDF file not found", src |-> 0]
\* open(pdf_path, 'rb') / PdfReader(pdf_file) / len(pdf_reader.pages) failing
ParseError == [type |-> "PdfReadError", msg |-> "", src |-> 0]
\* os.makedirs failing
MakedirsError == [type |-> "OSError", msg |-> "makedirs", src |-> 0]
\* open(pdf_path, 'rb').read() failing
LoadError == [type |-> "OSError", msg |-> "read", src |-> 0]
\* the exception stored in future k, re-raised by future.result()
TaskError(k) == [type |-> futures[k].exc, msg |-> "", src |-> k]

-----------------------------------------------------------------------------
(* f"page_{page_number+1:04}.tiff" *)

DigitsLastOnly(n) == <<n % 10>>

RECURSIVE Digits(_)
\* decimal digits of a natural number, most significant first
Digits(n) == IF n < 10 THEN <<n>> ELSE Append(Digits(n \div 10), n % 10)

\* the format spec 04: zero-pad on the left to at least PadWidth characters
ZeroPad(s) ==
    IF Len(s) >= PadWidth THEN s
    ELSE [i \in 1..PadWidth |->
            IF i <= PadWidth - Len(s) THEN 0 ELSE s[i - (PadWidth - Len(s))]]

ImagePathOffByOne(page_number) ==
    [prefix |-> "page_", digits |-> ZeroPad(Digits(page_number)), ext |-> ".tiff"]

\* image_path, relative to output_directory
ImagePath(page_number) ==
    [prefix |-> "page_", digits |-> ZeroPad(Digits(page_number + 1)), ext |-> ".tiff"]

-----------------------------------------------------------------------------
(* Helpers over the futures list *)

FutureIds == 1..Len(futures)
Terminal == {"Succeeded", "Failed"}
RunningFutures == {k \in FutureIds : futures[k].state = "Running"}
FinishedFutures == {k \in FutureIds : futures[k].state \in Terminal}
FailedFutures == {k \in FutureIds : futures[k].state = "Failed"}
ObservedSet == {observed[i] : i \in 1..Len(observed)}
RangeItemFromOne(k) == k

\* the element range(total_pages) yields in iteration number k (k = 1, 2, ...)
RangeItem(k) == k - 1

Init ==
    /\ pc = "check_resolution"
    /\ resolution \in Resolutions
    /\ path_is_file \in BOOLEAN
    /\ total_pages = -1
    /\ dir_exists \in BOOLEAN
    /\ files = {}
    /\ io = {}
    /\ executor = "none"
    /\ num_threads = 0
    /\ idle_semaphore = 0
    /\ work_queue = <<>>
    /\ futures = <<>>
    /\ observed = <<>>
    /\ error = NoError
    /\ notified = EmptyBag
    /\ unfinished_at_raise = {}
    /\ doc_pages = -1
    /\ exit_code = -1
    /\ stderr = <<>>
    /\ run = 1
    /\ first_files = {}

-----------------------------------------------------------------------------
(* The dispatcher: extract_tiff_from_pdf *)

\* an exception leaves the function before the executor exists
Raise(e) ==
    /\ error' = e
    /\ pc' = "done"

CheckResolutionAfterFile ==
    /\ pc = "check_resolution"
    /\ io' = io \cup {"isfile"}
    /\ IF ~path_is_file
         THEN Raise(NotFoundError)
         ELSE IF resolution <= 0
                THEN Raise(ResolutionError)
                ELSE pc' = "check_file" /\ UNCHANGED error
    /\ UNCHANGED <<doc_pages, exit_code, stderr, run, first_files>>
    /\ UNCHANGED <<resolution, path_is_file, total_pages, dir_exists, files,
                   executor, num_threads, idle_semaphore, work_queue, futures,
                   observed, notified, unfinished_at_raise>>

CheckResolutionStrict ==
    /\ pc = "check_resolution"
    /\ IF resolution < 0
         THEN Raise(ResolutionError)
         ELSE pc' = "check_file" /\ UNCHANGED error
    /\ UNCHANGED <<doc_pages, exit_code, stderr, run, first_files>>
    /\ UNCHANGED <<resolution, path_is_file, total_pages, dir_exists, files, io,
                   executor, num_threads, idle_semaphore, work_queue, futures,
                   observed, notified, unfinished_at_raise>>

\* if resolution <= 0: raise ValueError(...)
CheckResolution ==
    /\ pc = "check_resolution"
    /\ IF resolution <= 0
         THEN Raise(ResolutionError)
         ELSE pc' = "check_file" /\ UNCHANGED error
    /\ UNCHANGED <<doc_pages, exit_code, stderr, run, first_files>>
    /\ UNCHANGED <<resolution, path_is_file, total_pages, dir_exists, files, io,
                   executor, num_threads, idle_semaphore, work_queue, futures,
                   observed, notified, unfinished_at_raise>>

CheckFileSkipped ==
    /\ pc = "check_file"
    /\ io' = io \cup {"isfile"}
    /\ pc' = "read_pages"
    /\ UNCHANGED <<doc_pages, exit_code, stderr, run, first_files>>
    /\ UNCHANGED <<resolution, path_is_file, total_pages, dir_exists, files,
                   executor, num_threads, idle_semaphore, work_queue, futures,
                   observed, error, notified, unfinished_at_raise>>

\* if not os.path.isfile(pdf_path): raise ValueError(...)
CheckFile ==
    /\ pc = "check_file"
    /\ io' = io \cup {"isfile"}
    /\ IF ~path_is_file
         THEN Raise(NotFoundError)
         ELSE pc' = "read_pages" /\ UNCHANGED error
    /\ UNCHANGED <<doc_pages, exit_code, stderr, run, first_files>>
    /\ UNCHANGED <<resolution, path_is_file, total_pages, dir_exists, files,
                   executor, num_threads, idle_semaphore, work_queue, futures,
                   observed, notified, unfinished_at_raise>>

ReadPagesAfterMakeDirs(counts) ==
    /\ pc = "read_pages"
    /\ io' = io \cup {"makedirs", "open", "read"}
    /\ dir_exists' = TRUE
    /\ \/ \E n \in counts :
            /\ doc_pages \in {-1, n}
            /\ doc_pages' = n
            /\ total_pages' = n
            /\ pc' = "makedirs"
            /\ UNCHANGED error
       \/ /\ Raise(ParseError)
          /\ UNCHANGED <<total_pages, doc_pages>>
    /\ UNCHANGED <<exit_code, stderr, run, first_files>>
    /\ UNCHANGED <<resolution, path_is_file, files,
                   executor, num_threads, idle_semaphore, work_queue, futures,
                   observed, notified, unfinished_at_raise>>

\* with open(pdf_path, 'rb') as pdf_file: total_pages = len(PdfReader(pdf_file).pages)
\* `counts` is the set of page counts the document may have; a document that
\* was parsed before has the page count it had then
ReadPages(counts) ==
    /\ pc = "read_pages"
    /\ io' = io \cup {"open", "read"}
    /\ \/ \E n \in counts :
            /\ doc_pages \in {-1, n}
            /\ doc_pages' = n
            /\ total_pages' = n
            /\ pc' = "makedirs"
            /\ UNCHANGED error
       \/ /\ Raise(ParseError)
          /\ UNCHANGED <<total_pages, doc_pages>>
    /\ UNCHANGED <<exit_code, stderr, run, first_files>>
    /\ UNCHANGED <<resolution, path_is_file, dir_exists, files,
                   executor, num_threads, idle_semaphore, work_queue, futures,
                   observed, notified, unfinished_at_raise>>

MakeDirsNoExistOk ==
    /\ pc = "makedirs"
    /\ io' = io \cup {"makedirs"}
    /\ IF dir_exists
         THEN /\ Raise([MakedirsError EXCEPT !.type = "FileExistsError"])
              /\ UNCHANGED dir_exists
         ELSE \/ /\ dir_exists' = TRUE
                 /\ pc' = "load"
                 /\ UNCHANGED error
              \/ /\ Raise(MakedirsError)
                 /\ UNCHANGED dir_exists
    /\ UNCHANGED <<doc_pages, exit_code, stderr, run, first_files>>
    /\ UNCHANGED <<resolution, path_is_file, total_pages, files,
                   executor, num_threads, idle_semaphore, work_queue, futures,
                   observed, notified, unfinished_at_raise>>

\* os.makedirs(output_directory, exist_ok=True)
MakeDirs ==
    /\ pc = "makedirs"
    /\ io' = io \cup {"makedirs"}
    /\ \/ /\ dir_exists' = TRUE
          /\ pc' = "load"
          /\ UNCHANGED error
       \/ /\ ~dir_exists
          /\ Raise(MakedirsError)
          /\ UNCHANGED dir_exists
    /\ UNCHANGED <<doc_pages, exit_code, stderr, run, first_files>>
    /\ UNCHANGED <<resolution, path_is_file, total_pages, files,
                   executor, num_threads, idle_semaphore, work_queue, futures,
                   observed, notified, unfinished_at_raise>>

\* raw_pdf_bytes = open(pdf_path, 'rb').read()
LoadBytes ==
    /\ pc = "load"
    /\ io' = io \cup {"load"}
    /\ \/ pc' = "create_executor" /\ UNCHANGED error
       \/ Raise(LoadError)
    /\ UNCHANGED <<doc_pages, exit_code, stderr, run, first_files>>
    /\ UNCHANGED <<resolution, path_is_file, total_pages, dir_exists, files,
                   executor, num_threads, idle_semaphore, work_queue, futures,
                   observed, notified, unfinished_at_raise>>

\* with concurrent.futures.ThreadPoolExecutor(max_workers=20) as executor: futures = []
CreateExecutor ==
    /\ pc = "create_executor"
    /\ executor' = "open"
    /\ pc' = "submit"
    /\ UNCHANGED <<doc_pages, exit_code, stderr, run, first_files>>
    /\ UNCHANGED <<resolution, path_is_file, total_pages, dir_exists, files, io,
                   num_threads, idle_semaphore, work_queue, futures,
                   observed, error, notified, unfinished_at_raise>>

\* a Future as executor.submit creates it
NewFuture(page_number) ==
    [page |-> page_number, state |-> "Pending", at |-> "queued", exc |-> "None"]

AdjustThreadCountUnbounded ==
    IF idle_semaphore > 0
      THEN idle_semaphore' = idle_semaphore - 1 /\ UNCHANGED num_threads
      ELSE num_threads' = num_threads + 1 /\ UNCHANGED idle_semaphore

\* ThreadPoolExecutor._adjust_thread_count, called by submit: reuse an idle
\* worker, else start a new one while fewer than max_workers exist
AdjustThreadCount ==
    IF idle_semaphore > 0
      THEN idle_semaphore' = idle_semaphore - 1 /\ UNCHANGED num_threads
      ELSE IF num_threads < max_workers
             THEN num_threads' = num_threads + 1 /\ UNCHANGED idle_semaphore
             ELSE UNCHANGED <<num_threads, idle_semaphore>>

SubmitInclusive ==
    /\ pc = "submit"
    /\ IF Len(futures) <= total_pages
         THEN /\ futures' = Append(futures, NewFuture(RangeItem(Len(futures) + 1)))
              /\ work_queue' = Append(work_queue, Len(futures) + 1)
              /\ AdjustThreadCount
              /\ UNCHANGED pc
         ELSE /\ pc' = "join"
              /\ UNCHANGED <<futures, work_queue, num_threads, idle_semaphore>>
    /\ UNCHANGED <<doc_pages, exit_code, stderr, run, first_files>>
    /\ UNCHANGED <<resolution, path_is_file, total_pages, dir_exists, files, io,
                   executor, observed, error, notified, unfinished_at_raise>>

SubmitWhenWorkerFree ==
    /\ pc = "submit"
    /\ IF Len(futures) < total_pages
         THEN /\ Cardinality(RunningFutures) < max_workers
              /\ work_queue = <<>>
              /\ futures' = Append(futures, NewFuture(RangeItem(Len(futures) + 1)))
              /\ work_queue' = Append(work_queue, Len(futures) + 1)
              /\ AdjustThreadCount
              /\ UNCHANGED pc
         ELSE /\ pc' = "join"
              /\ UNCHANGED <<futures, work_queue, num_threads, idle_semaphore>>
    /\ UNCHANGED <<doc_pages, exit_code, stderr, run, first_files>>
    /\ UNCHANGED <<resolution, path_is_file, total_pages, dir_exists, files, io,
                   executor, observed, error, notified, unfinished_at_raise>>

\* for page_number in range(total_pages): futures.append(executor.submit(...))
\* one iteration of the loop, or the exit of the loop into the join
Submit ==
    /\ pc = "submit"
    /\ IF Len(futures) < total_pages
         THEN /\ futures' = Append(futures, NewFuture(RangeItem(Len(futures) + 1)))
              /\ work_queue' = Append(work_queue, Len(futures) + 1)
              /\ AdjustThreadCount
              /\ UNCHANGED pc
         ELSE /\ pc' = "join"
              /\ UNCHANGED <<futures, work_queue, num_threads, idle_semaphore>>
    /\ UNCHANGED <<doc_pages, exit_code, stderr, run, first_files>>
    /\ UNCHANGED <<resolution, path_is_file, total_pages, dir_exists, files, io,
                   executor, observed, error, notified, unfinished_at_raise>>

-----------------------------------------------------------------------------
(* The worker threads: _worker of the executor running _convert_page_to_image *)

WorkerStartOnce ==
    /\ work_queue # <<>>
    /\ Cardinality(RunningFutures) + Cardinality(FinishedFutures) < num_threads
    /\ futures' = [futures EXCEPT ![Head(work_queue)].state = "Running",
                                  ![Head(work_queue)].at = "render"]
    /\ work_queue' = Tail(work_queue)
    /\ UNCHANGED <<doc_pages, exit_code, stderr, run, first_files>>
    /\ UNCHANGED <<pc, resolution, path_is_file, total_pages, dir_exists, files, io,
                   executor, num_threads, idle_semaphore,
                   observed, error, notified, unfinished_at_raise>>

\* work_item = work_queue.get(block=True); work_item.run() marks the future RUNNING.
\* Enabled when a worker thread is not busy with another work item.
WorkerStart ==
    /\ work_queue # <<>>
    /\ Cardinality(RunningFutures) < num_threads
    /\ futures' = [futures EXCEPT ![Head(work_queue)].state = "Running",
                                  ![Head(work_queue)].at = "render"]
    /\ work_queue' = Tail(work_queue)
    /\ UNCHANGED <<doc_pages, exit_code, stderr, run, first_files>>
    /\ UNCHANGED <<pc, resolution, path_is_file, total_pages, dir_exists, files, io,
                   executor, num_threads, idle_semaphore,
                   observed, error, notified, unfinished_at_raise>>

FailFutureRetry(k, exc) ==
    /\ futures' = [futures EXCEPT ![k].at = "render"]
    /\ UNCHANGED idle_semaphore

\* the call raised: the future finishes with the exception, the worker goes idle
FailFuture(k, exc) ==
    /\ futures' = [futures EXCEPT ![k].state = "Failed", ![k].at = "end", ![k].exc = exc]
    /\ idle_semaphore' = idle_semaphore + 1

\* images = convert_from_bytes(..., first_page=page_number+1, last_page=page_number+1);
\* image = images[0].  `faulty` is the set of pages the renderer may fail on.
RenderPage(k, faulty) ==
    /\ k \in RunningFutures
    /\ futures[k].at = "render"
    /\ \/ /\ futures' = [futures EXCEPT ![k].at = "save"]
          /\ UNCHANGED idle_semaphore
       \/ /\ futures[k].page \in faulty
          /\ FailFuture(k, "RenderError")
    /\ UNCHANGED <<doc_pages, exit_code, stderr, run, first_files>>
    /\ UNCHANGED <<pc, resolution, path_is_file, total_pages, dir_exists, files, io,
                   executor, num_threads, work_queue,
                   observed, error, notified, unfinished_at_raise>>

\* the file image.save leaves in the output directory (an existing file of
\* that name is overwritten)
WriteFile(name) ==
    {f \in files : f.name # name} \cup {[name |-> name, dpi |-> resolution]}

SavePageNotifyFirst(k, faulty) ==
    /\ k \in RunningFutures
    /\ futures[k].at = "save"
    /\ notified' = notified (+) SetToBag({futures[k].page + 1})
    /\ \/ /\ files' = WriteFile(ImagePath(futures[k].page))
          /\ futures' = [futures EXCEPT ![k].at = "print"]
          /\ UNCHANGED idle_semaphore
       \/ /\ futures[k].page \in faulty
          /\ FailFuture(k, "IOError")
          /\ UNCHANGED files
    /\ UNCHANGED <<doc_pages, exit_code, stderr, run, first_files>>
    /\ UNCHANGED <<pc, resolution, path_is_file, total_pages, dir_exists, io,
                   executor, num_threads, work_queue,
                   observed, error, unfinished_at_raise>>

\* image_path = os.path.join(output_directory, f"page_{page_number+1:04}.tiff");
\* image.save(image_path, "TIFF", dpi=(resolution, resolution))
SavePage(k, faulty) ==
    /\ k \in RunningFutures
    /\ futures[k].at = "save"
    /\ \/ /\ files' = WriteFile(ImagePath(futures[k].page))
          /\ futures' = [futures EXCEPT ![k].at = "print"]
          /\ UNCHANGED idle_semaphore
       \/ /\ futures[k].page \in faulty
          /\ FailFuture(k, "IOError")
          /\ UNCHANGED files
    /\ UNCHANGED <<doc_pages, exit_code, stderr, run, first_files>>
    /\ UNCHANGED <<pc, resolution, path_is_file, total_pages, dir_exists, io,
                   executor, num_threads, work_queue,
                   observed, error, notified, unfinished_at_raise>>

\* print(f"Saved page {page_number+1} as {image_path}"); the call returns, the
\* future finishes with its result and the worker goes idle
NotifyPage(k) ==
    /\ k \in RunningFutures
    /\ futures[k].at = "print"
    /\ notified' = notified (+) SetToBag({futures[k].page + 1})
    /\ futures' = [futures EXCEPT ![k].state = "Succeeded", ![k].at = "end"]
    /\ idle_semaphore' = idle_semaphore + 1
    /\ UNCHANGED <<doc_pages, exit_code, stderr, run, first_files>>
    /\ UNCHANGED <<pc, resolution, path_is_file, total_pages, dir_exists, files, io,
                   executor, num_threads, work_queue,
                   observed, error, unfinished_at_raise>>

-----------------------------------------------------------------------------
(* The join loop and the exit of the `with` block *)

JoinObserveIgnoreResult(k) ==
    /\ pc = "join"
    /\ k \in FinishedFutures \ ObservedSet
    /\ observed' = Append(observed, k)
    /\ UNCHANGED <<pc, error, unfinished_at_raise>>
    /\ UNCHANGED <<doc_pages, exit_code, stderr, run, first_files>>
    /\ UNCHANGED <<resolution, path_is_file, total_pages, dir_exists, files, io,
                   executor, num_threads, idle_semaphore, work_queue, futures,
                   notified>>

JoinObserveCancelPending(k) ==
    /\ pc = "join"
    /\ k \in FinishedFutures \ ObservedSet
    /\ observed' = Append(observed, k)
    /\ IF futures[k].state = "Failed"
         THEN /\ error' = TaskError(k)
              /\ unfinished_at_raise' =
                    {<<j, futures[j].state>> : j \in FutureIds \ FinishedFutures}
              /\ pc' = "exit_with"
              /\ work_queue' = <<>>
              /\ futures' = [j \in FutureIds |->
                               IF futures[j].state = "Pending"
                                 THEN [futures[j] EXCEPT !.state = "Cancelled"]
                                 ELSE futures[j]]
         ELSE UNCHANGED <<pc, error, unfinished_at_raise, work_queue, futures>>
    /\ UNCHANGED <<doc_pages, exit_code, stderr, run, first_files>>
    /\ UNCHANGED <<resolution, path_is_file, total_pages, dir_exists, files, io,
                   executor, num_threads, idle_semaphore, notified>>

JoinObserveKeepGoing(k) ==
    /\ pc = "join"
    /\ k \in FinishedFutures \ ObservedSet
    /\ observed' = Append(observed, k)
    /\ IF futures[k].state = "Failed"
         THEN /\ error' = TaskError(k)
              /\ unfinished_at_raise' = {<<j, futures[j].state>> : j \in FutureIds \ FinishedFutures}
         ELSE UNCHANGED <<error, unfinished_at_raise>>
    /\ UNCHANGED <<doc_pages, exit_code, stderr, run, first_files>>
    /\ UNCHANGED <<pc, resolution, path_is_file, total_pages, dir_exists, files, io,
                   executor, num_threads, idle_semaphore, work_queue, futures,
                   notified>>

\* for future in as_completed(futures): future.result()
\* as_completed yields a finished future it has not yielded yet; result()
\* returns, or raises the future's exception out of the loop
JoinObserve(k) ==
    /\ pc = "join"
    /\ k \in FinishedFutures \ ObservedSet
    /\ observed' = Append(observed, k)
    /\ IF futures[k].state = "Failed"
         THEN /\ error' = TaskError(k)
              /\ unfinished_at_raise' = {<<j, futures[j].state>> : j \in FutureIds \ FinishedFutures}
              /\ pc' = "exit_with"
         ELSE UNCHANGED <<pc, error, unfinished_at_raise>>
    /\ UNCHANGED <<doc_pages, exit_code, stderr, run, first_files>>
    /\ UNCHANGED <<resolution, path_is_file, total_pages, dir_exists, files, io,
                   executor, num_threads, idle_semaphore, work_queue, futures,
                   notified>>

\* as_completed is exhausted: every future was yielded and none raised
JoinDone ==
    /\ pc = "join"
    /\ ObservedSet = FutureIds
    /\ pc' = "exit_with"
    /\ UNCHANGED <<doc_pages, exit_code, stderr, run, first_files>>
    /\ UNCHANGED <<resolution, path_is_file, total_pages, dir_exists, files, io,
                   executor, num_threads, idle_semaphore, work_queue, futures,
                   observed, error, notified, unfinished_at_raise>>

ExitWithRollback ==
    /\ pc = "exit_with"
    /\ work_queue = <<>>
    /\ RunningFutures = {}
    /\ executor' = "shutdown"
    /\ pc' = "done"
    /\ files' = IF error = NoError THEN files ELSE {}
    /\ UNCHANGED <<doc_pages, exit_code, stderr, run, first_files>>
    /\ UNCHANGED <<resolution, path_is_file, total_pages, dir_exists, io,
                   num_threads, idle_semaphore, work_queue, futures,
                   observed, error, notified, unfinished_at_raise>>

ExitWithNoWait ==
    /\ pc = "exit_with"
    /\ executor' = "shutdown"
    /\ pc' = "done"
    /\ UNCHANGED <<doc_pages, exit_code, stderr, run, first_files>>
    /\ UNCHANGED <<resolution, path_is_file, total_pages, dir_exists, files, io,
                   num_threads, idle_semaphore, work_queue, futures,
                   observed, error, notified, unfinished_at_raise>>

\* ThreadPoolExecutor.__exit__ -> shutdown(wait=True): joins the worker
\* threads, which drain the work queue before they exit; then the function
\* returns or the exception in flight propagates to the caller
ExitWith ==
    /\ pc = "exit_with"
    /\ work_queue = <<>>
    /\ RunningFutures = {}
    /\ executor' = "shutdown"
    /\ pc' = "done"
    /\ UNCHANGED <<doc_pages, exit_code, stderr, run, first_files>>
    /\ UNCHANGED <<resolution, path_is_file, total_pages, dir_exists, files, io,
                   num_threads, idle_semaphore, work_queue, futures,
                   observed, error, notified, unfinished_at_raise>>

-----------------------------------------------------------------------------
(* The command line entry point: main *)

\* print(f"Error processing PDF: {str(e)}", file=sys.stderr)
ErrorMessage(e) == [prefix |-> "Error processing PDF: ", text |-> e.msg, of |-> e.src]

MainExitAlwaysZero ==
    /\ pc = "done"
    /\ exit_code = -1
    /\ exit_code' = 0
    /\ stderr' = IF error = NoError THEN stderr ELSE Append(stderr, ErrorMessage(error))
    /\ UNCHANGED <<doc_pages, run, first_files>>
    /\ UNCHANGED <<pc, resolution, path_is_file, total_pages, dir_exists, files, io,
                   executor, num_threads, idle_semaphore, work_queue, futures,
                   observed, error, notified, unfinished_at_raise>>

\* try: extract_tiff_from_pdf(...)  except Exception as e: print(...); sys.exit(1)
\* the call returned: main returns and the process exits with 0; the call
\* raised: the handler prints the message and exits with 1
MainExit ==
    /\ pc = "done"
    /\ exit_code = -1
    /\ IF error = NoError
         THEN /\ exit_code' = 0
              /\ UNCHANGED stderr
         ELSE /\ stderr' = Append(stderr, ErrorMessage(error))
              /\ exit_code' = 1
    /\ UNCHANGED <<doc_pages, run, first_files>>
    /\ UNCHANGED <<pc, resolution, path_is_file, total_pages, dir_exists, files, io,
                   executor, num_threads, idle_semaphore, work_queue, futures,
                   observed, error, notified, unfinished_at_raise>>

-----------------------------------------------------------------------------
(* Specifications *)

\* page indices of a document of total_pages pages
AllPages == 0..(total_pages - 1)

\* Spec: documents of 0..MaxPages pages, every interleaving of the workers
\* and the dispatcher, every page may fail in rendering or in saving
ReadPageCount == ReadPages(0..MaxPages)
Render == \E k \in FutureIds : RenderPage(k, AllPages)
Save == \E k \in FutureIds : SavePage(k, AllPages)
Notify == \E k \in FutureIds : NotifyPage(k)
Join == \E k \in FutureIds : JoinObserve(k)

Next ==
    \/ CheckResolution
    \/ CheckFile
    \/ ReadPageCount
    \/ MakeDirs
    \/ LoadBytes
    \/ CreateExecutor
    \/ Submit
    \/ WorkerStart
    \/ Render
    \/ Save
    \/ Notify
    \/ Join
    \/ JoinDone
    \/ ExitWith
    \/ MainExit

Spec == Init /\ [][Next]_vars

\* FairSpec: the dispatcher thread and every worker thread keep being
\* scheduled, and convert_from_bytes, image.save and print return
FairSpec ==
    /\ Spec
    /\ WF_vars(CheckResolution) /\ WF_vars(CheckFile) /\ WF_vars(ReadPageCount)
    /\ WF_vars(MakeDirs) /\ WF_vars(LoadBytes) /\ WF_vars(CreateExecutor)
    /\ WF_vars(Submit) /\ WF_vars(Join) /\ WF_vars(JoinDone) /\ WF_vars(ExitWith)
    /\ WF_vars(WorkerStart) /\ WF_vars(MainExit)
    /\ \A k \in 1..MaxPages :
          WF_vars(RenderPage(k, AllPages)) /\ WF_vars(SavePage(k, AllPages))
            /\ WF_vars(NotifyPage(k))

\* the same document is converted again into the same output directory with
\* the same resolution, after a first conversion that returned normally: a
\* new call (a new process for the command line) starts on the disk as the
\* first one left it
CallAgain ==
    /\ pc = "done"
    /\ run = 1
    /\ executor = "shutdown"
    /\ error = NoError
    /\ run' = 2
    /\ first_files' = files
    /\ pc' = "check_resolution"
    /\ total_pages' = -1
    /\ io' = {}
    /\ executor' = "none"
    /\ num_threads' = 0
    /\ idle_semaphore' = 0
    /\ work_queue' = <<>>
    /\ futures' = <<>>
    /\ observed' = <<>>
    /\ notified' = EmptyBag
    /\ unfinished_at_raise' = {}
    /\ exit_code' = -1
    /\ stderr' = <<>>
    /\ UNCHANGED <<resolution, path_is_file, dir_exists, files, doc_pages, error>>

\* SpecRerun: Spec, with a second conversion after a successful first one
NextRerun ==
    \/ CheckResolution
    \/ CheckFile
    \/ ReadPageCount
    \/ MakeDirs
    \/ LoadBytes
    \/ CreateExecutor
    \/ Submit
    \/ WorkerStart
    \/ Render
    \/ Save
    \/ Notify
    \/ Join
    \/ JoinDone
    \/ ExitWith
    \/ MainExit
    \/ CallAgain

SpecRerun == Init /\ [][NextRerun]_vars

\* SpecPool: documents with more pages than the pool has workers.  Of the
\* schedules of such a run it explores those in which the running call with
\* the lowest future id is the one that advances and the join loop is handed
\* the finished futures in list order; page max_workers, the first page
\* that has to queue behind the pool, may fail.
FaultyPages == {max_workers}
LowestRunning == {k \in RunningFutures : \A j \in RunningFutures : k <= j}
NextUnobserved == {k \in FutureIds : k = Len(observed) + 1}
ReadPageCountBig == ReadPages((max_workers + 1)..(max_workers + MaxExtra))
RenderInOrder == \E k \in LowestRunning : RenderPage(k, FaultyPages)
SaveInOrder == \E k \in LowestRunning : SavePage(k, FaultyPages)
NotifyInOrder == \E k \in LowestRunning : NotifyPage(k)
JoinInOrder == \E k \in NextUnobserved : JoinObserve(k)

NextPool ==
    \/ CheckResolution
    \/ CheckFile
    \/ ReadPageCountBig
    \/ MakeDirs
    \/ LoadBytes
    \/ CreateExecutor
    \/ Submit
    \/ WorkerStart
    \/ RenderInOrder
    \/ SaveInOrder
    \/ NotifyInOrder
    \/ JoinInOrder
    \/ JoinDone
    \/ ExitWith
    \/ MainExit

SpecPool == Init /\ [][NextPool]_vars

\* FairSpecPool: SpecPool with the dispatcher thread and the worker threads
\* scheduled fairly and every call of the rendering and imaging libraries
\* returning
FairSpecPool ==
    /\ SpecPool
    /\ WF_vars(CheckResolution) /\ WF_vars(CheckFile) /\ WF_vars(ReadPageCountBig)
    /\ WF_vars(MakeDirs) /\ WF_vars(LoadBytes) /\ WF_vars(CreateExecutor)
    /\ WF_vars(Submit) /\ WF_vars(JoinInOrder) /\ WF_vars(JoinDone)
    /\ WF_vars(ExitWith) /\ WF_vars(MainExit)
    /\ WF_vars(WorkerStart) /\ WF_vars(RenderInOrder) /\ WF_vars(SaveInOrder)
    /\ WF_vars(NotifyInOrder)

-----------------------------------------------------------------------------
TypeOK ==
    /\ pc \in {"check_resolution", "check_file", "read_pages", "makedirs", "load",
               "create_executor", "submit", "join", "exit_with", "done"}
    /\ resolution \in Resolutions
    /\ path_is_file \in BOOLEAN
    /\ total_pages \in -1..(max_workers + MaxExtra + 1)
    /\ dir_exists \in BOOLEAN
    /\ executor \in {"none", "open", "shutdown"}
    /\ num_threads \in Nat
    /\ idle_semaphore \in Nat
    /\ \A k \in FutureIds :
          /\ futures[k].state \in {"Pending", "Running"} \cup Terminal
          /\ futures[k].at \in {"queued", "render", "save", "print", "end"}
          /\ futures[k].exc \in {"None", "RenderError", "IOError"}
    /\ ObservedSet \subseteq FutureIds
    /\ doc_pages \in -1..(max_workers + MaxExtra + 1)
    /\ exit_code \in {-1, 0, 1}
    /\ Len(stderr) <= 1
    /\ run \in {1, 2}

-----------------------------------------------------------------------------
(* Properties *)

RECURSIVE DigitsValue(_)
\* the number a sequence of decimal digits denotes
DigitsValue(d) ==
    IF Len(d) = 0 THEN 0
    ELSE 10 * DigitsValue(SubSeq(d, 1, Len(d) - 1)) + d[Len(d)]

\* the call went past validation and the executor was created
PoolUsed == executor # "none"
Returned == pc = "done"

\* C1: extract_tiff_from_pdf returns (normally or with an exception) only
\* when every submitted future has finished, Succeeded or Failed, and nothing
\* is left in the work queue; also when the join loop raised while other
\* futures were still Pending or Running.
ReturnsAfterAllTasksFinished ==
    Returned => /\ FinishedFutures = FutureIds
                /\ work_queue = <<>>

\* the call has returned with a task's exception that the join loop raised
\* while other futures were unfinished
ReturnedAfterEarlyFailure ==
    /\ Returned
    /\ error.src \in FailedFutures
    /\ \E u \in unfinished_at_raise : u[2] = "Running"
    /\ \E u \in unfinished_at_raise : u[2] = "Pending"

\* C2: in every reachable state, also for documents of more than 20 pages,
\* at most 20 _convert_page_to_image calls are Running.
AtMostTwentyRunning == Cardinality(RunningFutures) <= 20

\* a document of more than 20 pages: 20 calls Running, the rest queued
PoolSaturated ==
    /\ total_pages > 20
    /\ Cardinality(RunningFutures) = 20
    /\ work_queue # <<>>

\* C3: the futures list holds, in submission order, exactly the page indices
\* 0, 1, 2, ...: never more than total_pages of them, and all of
\* 0..total_pages-1 once the submission loop is over.
SubmitsEachPageOnceAscending ==
    /\ \A k \in FutureIds : futures[k].page = k - 1
    /\ Len(futures) > 0 => Len(futures) <= total_pages
    /\ (PoolUsed /\ pc \in {"join", "exit_with", "done"}) => Len(futures) = total_pages

AllPagesSubmitted ==
    /\ pc = "join"
    /\ total_pages >= 2
    /\ Len(futures) = total_pages

\* C4: when every page task succeeded and the call returned normally, the
\* files written are exactly page_0001.tiff .. page_P.tiff: P files, their
\* numbers are 1..P, each number zero-padded to four digits.
SuccessfulRunWritesExactlyThePages ==
    (Returned /\ PoolUsed /\ error = NoError) =>
        /\ Cardinality(files) = total_pages
        /\ {DigitsValue(f.name.digits) : f \in files} = 1..total_pages
        /\ \A f \in files : /\ f.name.prefix = "page_"
                            /\ f.name.ext = ".tiff"
                            /\ Len(f.name.digits) = 4

SuccessfulRunOfSeveralPages ==
    /\ Returned
    /\ PoolUsed
    /\ error = NoError
    /\ total_pages >= 2

\* C5: once validation has passed and the executor exists, the call ends
\* with an exception if and only if at least one page task failed.
FailsIffSomeTaskFailed ==
    (Returned /\ PoolUsed) => ((error # NoError) <=> (FailedFutures # {}))

ReturnedWithMixedOutcomes ==
    /\ Returned
    /\ PoolUsed
    /\ FailedFutures # {}
    /\ FinishedFutures \ FailedFutures # {}

\* C6: the exception the call ends with is the exception of the failed
\* future the join loop was handed last; every future it was handed before
\* had succeeded.
SurfacesFirstObservedFailure ==
    (PoolUsed /\ error # NoError) =>
        /\ error.src \in FailedFutures
        /\ error = TaskError(error.src)
        /\ observed # <<>>
        /\ observed[Len(observed)] = error.src
        /\ \A i \in 1..(Len(observed) - 1) : futures[observed[i]].state = "Succeeded"

\* two futures failed, a successful one was observed first, and the failure
\* surfaced is not the only one
ReturnedWithOneOfSeveralFailures ==
    /\ Returned
    /\ Cardinality(FailedFutures) >= 2
    /\ Len(observed) >= 2
    /\ error.src \in FailedFutures

\* C7: no cancellation: every submitted future that is Pending eventually
\* finishes, Succeeded or Failed, whatever happened to its siblings and
\* whatever the join loop has observed.
EveryPendingTaskFinishes ==
    \A k \in 1..MaxPages :
        (k \in FutureIds /\ futures[k].state = "Pending")
            ~> (k \in FutureIds /\ futures[k].state \in Terminal)

\* a future that was still Pending when the join loop raised a sibling's
\* failure has run and succeeded
PendingAtFailureStillRan ==
    /\ Returned
    /\ \E u \in unfinished_at_raise :
          u[2] = "Pending" /\ futures[u[1]].state = "Succeeded"

\* C8: when exactly one page task failed, in rendering, the call ends with
\* an exception and the file of every other page is in the output directory.
OneRenderFailureKeepsOtherFiles ==
    (Returned /\ PoolUsed /\ Cardinality(FailedFutures) = 1
       /\ \A k \in FailedFutures : futures[k].exc = "RenderError") =>
        /\ error # NoError
        /\ \A k \in FutureIds \ FailedFutures :
              \E f \in files : DigitsValue(f.name.digits) = k
        /\ Cardinality(files) = total_pages - 1

OneOfSeveralPagesFailedRendering ==
    /\ Returned
    /\ total_pages >= 3
    /\ Cardinality(FailedFutures) = 1
    /\ \A k \in FailedFutures : futures[k].exc = "RenderError" /\ k = 2

\* C9: with resolution <= 0 the call ends with the resolution ValueError and
\* does nothing else: no file-system operation, no directory created, no
\* executor, no future submitted.
NonPositiveResolutionFailsWithoutIO ==
    resolution <= 0 =>
        /\ io = {}
        /\ futures = <<>>
        /\ executor = "none"
        /\ files = {}
        /\ pc \in {"check_resolution", "done"}
        /\ Returned => error = ResolutionError

RejectedNonPositiveResolution ==
    /\ Returned
    /\ resolution = 0
    /\ error.type = "ValueError"

\* C10 as stated: a missing input file ends the call with an error whose
\* kind differs from the kind raised for a non-positive resolution.
MissingFileHasItsOwnErrorKind ==
    (Returned /\ resolution > 0 /\ ~path_is_file) =>
        /\ error # NoError
        /\ error.type # ResolutionError.type

\* C10 as amended: a missing input file (resolution positive) ends the call
\* with the ValueError "PDF file not found", the exception type also raised
\* for a non-positive resolution and told apart from it by the message only;
\* nothing was opened or read, no directory created, no future submitted.
MissingFileFailsBeforeReading ==
    (resolution > 0 /\ ~path_is_file) =>
        /\ io \subseteq {"isfile"}
        /\ futures = <<>>
        /\ executor = "none"
        /\ files = {}
        /\ pc \in {"check_resolution", "check_file", "done"}
        /\ Returned => /\ error = NotFoundError
                       /\ error.type = ResolutionError.type
                       /\ error.msg # ResolutionError.msg

RejectedMissingFile ==
    /\ Returned
    /\ resolution > 0
    /\ ~path_is_file
    /\ error.msg = "PDF file not found"

\* C11: when the process running main has exited, its exit code is 0 and
\* nothing was printed to stderr if extract_tiff_from_pdf returned normally;
\* its exit code is 1 and stderr holds exactly one message, that of the
\* exception, if the call raised (in validation or from a page task).
ExitCodeReportsTheOutcome ==
    exit_code # -1 =>
        /\ Returned
        /\ error = NoError => (exit_code = 0 /\ stderr = <<>>)
        /\ error # NoError => /\ exit_code = 1
                              /\ stderr = <<ErrorMessage(error)>>

\* the process exited with 1 after a page task failed
ExitedAfterTaskFailure ==
    /\ exit_code = 1
    /\ error.src \in FailedFutures
    /\ Len(stderr) = 1

\* how far a worker is in _convert_page_to_image
StepRank(at) ==
    CASE at = "queued" -> 0
      [] at = "render" -> 1
      [] at = "save" -> 2
      [] at = "print" -> 3
      [] at = "end" -> 4

\* one step of a future from record f to record g
AllowedMove(f, g) ==
    /\ g.page = f.page
    /\ f.state = "Pending" => g.state \in {"Pending", "Running"}
    /\ f.state = "Running" => g.state \in {"Running", "Succeeded", "Failed"}
    /\ f.state \in Terminal => g = f
    /\ StepRank(g.at) >= StepRank(f.at)
    /\ g.state = "Pending" <=> g.at = "queued"
    /\ g.state \in Terminal <=> g.at = "end"

\* C12: every step takes every future along Pending -> Running ->
\* {Succeeded, Failed}: never backwards, a finished future never changes
\* again, and the position inside _convert_page_to_image only advances, so
\* the render is entered at most once and a failed call is not retried.
TaskStateMachine ==
    [][\A k \in FutureIds :
          /\ k \in 1..Len(futures')
          /\ AllowedMove(futures[k], futures'[k])]_vars

\* a call that rendered its page and then failed in saving stays Failed
\* while a sibling succeeded
FailedInSavingStaysFailed ==
    /\ Returned
    /\ \E k \in FailedFutures : futures[k].exc = "IOError"
    /\ \E k \in FutureIds : futures[k].state = "Succeeded"

\* the file a future's call writes
TargetFile(k) == ImagePath(futures[k].page)

\* C13: no two futures of a run write the same file: the number in the
\* file name is the page index plus one, so futures with different page
\* indices, in particular two Running ones, have different target files.
DistinctTasksWriteDistinctFiles ==
    /\ \A k \in FutureIds : DigitsValue(TargetFile(k).digits) = futures[k].page + 1
    /\ Cardinality({TargetFile(k) : k \in FutureIds}) = Len(futures)
    /\ Cardinality({TargetFile(k) : k \in RunningFutures}) = Cardinality(RunningFutures)

\* the calls for page numbers 1, 11 and 21 are in flight together
PagesOneAndElevenRunning ==
    /\ {1, 11} \subseteq RunningFutures
    /\ 21 \in FutureIds

\* C14: every page number was notified at most once and only with its file
\* in the output directory; a Succeeded call has notified its page, a Failed
\* one (in rendering or in saving) has not.
NotifiedOnlyAfterWritten ==
    /\ \A n \in BagToSet(notified) :
          /\ CopiesIn(n, notified) = 1
          /\ \E f \in files : DigitsValue(f.name.digits) = n
    /\ \A k \in FutureIds :
          /\ futures[k].state = "Failed" => ~BagIn(futures[k].page + 1, notified)
          /\ futures[k].state = "Succeeded" => BagIn(futures[k].page + 1, notified)
          /\ futures[k].at \in {"render", "save", "print"} =>
                ~BagIn(futures[k].page + 1, notified)

\* one call failed in saving without a notification, another was notified
SaveFailureNextToNotifiedPage ==
    /\ Returned
    /\ \E k \in FailedFutures : futures[k].exc = "IOError"
    /\ BagToSet(notified) # {}
    /\ BagCardinality(notified) < Len(futures)

\* C15: the dispatcher can always take its next step while it creates the
\* executor and submits, whatever the workers are doing (also with all 20
\* busy and work queued), and when it waits in the join loop or in the exit
\* of the with block every page has been submitted.
SubmissionNeverWaits ==
    /\ pc = "create_executor" => ENABLED CreateExecutor
    /\ pc = "submit" => ENABLED Submit
    /\ (pc \in {"join", "exit_with"} \/ observed # <<>>) => Len(futures) = total_pages

\* more than 20 pages were all submitted and the dispatcher entered the join
\* loop before any call finished: 20 Running, the rest queued
AllSubmittedBeforeAnyFinished ==
    /\ pc = "join"
    /\ Len(futures) > max_workers
    /\ FinishedFutures = {}
    /\ Cardinality(RunningFutures) = max_workers
    /\ Len(work_queue) = Len(futures) - max_workers

\* C16: while and after the same document is converted a second time into
\* the same directory, the directory holds the files, with the contents, the
\* first conversion left; the second call never ends with the error of
\* os.makedirs or with a file-exists error.
RerunIsIdempotent ==
    run = 2 =>
        /\ files = first_files
        /\ dir_exists
        /\ error # MakedirsError
        /\ error.type # "FileExistsError"

\* the second conversion of a document of several pages returned normally
SecondRunReturned ==
    /\ run = 2
    /\ Returned
    /\ error = NoError
    /\ total_pages >= 2
    /\ Cardinality(files) = total_pages

\* C17: when no call of the libraries hangs and the threads are scheduled
\* fairly, extract_tiff_from_pdf eventually returns or raises, also for
\* documents of more than 20 pages whose calls queue behind the 20 workers
\* and for runs in which a call fails.
EventuallyReturns == <>Returned

\* a run of more than 20 pages in which a call failed has returned
ReturnedFromQueuedRunWithFailure ==
    /\ Returned
    /\ Len(futures) > max_workers
    /\ FailedFutures # {}
    /\ error.src \in FailedFutures

\* C18: the steps come in the order resolution check, file check, page
\* count, makedirs, load, submission: each has happened only if the ones
\* before it have; a failed page-count read leaves makedirs uncalled, and a
\* failed makedirs leaves the document unloaded and no future submitted.
StepsInOrder ==
    /\ resolution <= 0 => io = {}
    /\ io \cap {"open", "read"} # {} => ("isfile" \in io /\ path_is_file)
    /\ "makedirs" \in io => ({"open", "read"} \subseteq io /\ total_pages >= 0)
    /\ "load" \in io => ("makedirs" \in io /\ dir_exists)
    /\ (executor # "none" \/ futures # <<>>) => ("load" \in io /\ dir_exists)
    /\ error = ParseError =>
          ("makedirs" \notin io /\ total_pages = -1 /\ futures = <<>>)
    /\ error = MakedirsError =>
          ("load" \notin io /\ executor = "none" /\ futures = <<>>)

\* makedirs failed for a document whose pages had been counted
MakedirsFailedAfterPageCount ==
    /\ Returned
    /\ error = MakedirsError
    /\ total_pages >= 1
    /\ ~dir_exists

\* C19: a call with a non-positive resolution and a missing input file ends
\* with the resolution error, not with the file-not-found error, and
\* os.path.isfile was never asked.
ResolutionErrorWinsOverMissingFile ==
    (Returned /\ resolution <= 0 /\ ~path_is_file) =>
        /\ error.msg = ResolutionError.msg
        /\ error.msg # NotFoundError.msg
        /\ "isfile" \notin io

\* the call with resolution -1 and a missing file has ended
RejectedWithBothArgumentsBad ==
    /\ Returned
    /\ resolution = -1
    /\ ~path_is_file
    /\ error # NoError

\* C20: for a document of 0 pages the call creates the output directory,
\* submits nothing, writes no file, notifies nothing and returns normally
\* (os.makedirs and the read of the file not failing).
ZeroPagesReturnsNormally ==
    (Returned /\ total_pages = 0 /\ error \notin {MakedirsError, LoadError}) =>
        /\ "makedirs" \in io
        /\ dir_exists
        /\ executor = "shutdown"
        /\ futures = <<>>
        /\ files = {}
        /\ notified = EmptyBag
        /\ error = NoError

\* the call for an empty document has returned through the executor
ReturnedForEmptyDocument ==
    /\ Returned
    /\ total_pages = 0
    /\ executor = "shutdown"
    /\ exit_code = 0

====
